---- MODULE Spec2Model ----
(***************************************************************************)
(* Model of the Mem0 gateway service (src/mem0_service/main.py).           *)
(*                                                                         *)
(* The service is a FastAPI application with six endpoints in front of a   *)
(* third-party memory engine (mem0.Memory).  Every handler is an           *)
(* `async def` without any await, so a handler runs to completion on the   *)
(* event loop before the next one starts: one action per handler.          *)
(*                                                                         *)
(* Python values that cross the engine boundary are modelled as tagged     *)
(* records [t |-> <python type name>, v |-> <payload>].  A float is        *)
(* represented by its number of tenths (PyFloat(9) is 0.9).                *)
(***************************************************************************)
EXTENDS Integers, Sequences, FiniteSets, TLC

VARIABLES
    memory,       \* the module-level engine handle: Memory object or None
    request,      \* the request handled last
    engineCalls,  \* the engine calls made while handling that request
    engineReply,  \* what the engine did for that request (return / raise)
    response,     \* the HTTP answer to that request
    invoked,      \* names of the engine operations invoked so far
    store         \* engine side: users that currently have stored memories

vars == <<memory, request, engineCalls, engineReply, response, invoked, store>>

----------------------------------------------------------------------------
(* Bounds of the model                                                     *)

MaxMessages == 2   \* longest conversation in an add request
MaxResults  == 2   \* longest engine result sequence in the normalisation runs

----------------------------------------------------------------------------
(* Python values                                                           *)

PyNone     == [t |-> "NoneType"]
PyInt(n)   == [t |-> "int", v |-> n]
PyFloat(n) == [t |-> "float", v |-> n]      \* n tenths
PyStr(s)   == [t |-> "str", v |-> s]
PyList(s)  == [t |-> "list", v |-> s]       \* s: sequence of values
PyDict(d)  == [t |-> "dict", v |-> d]       \* d: function key -> value

EmptyMap  == [k \in {} |-> PyNone]
EmptyDict == PyDict(EmptyMap)

\* Python truth value of an object, as tested by `if results:`
Truthy(x) ==
    CASE x.t = "NoneType" -> FALSE
      [] x.t = "int"      -> x.v # 0
      [] x.t = "float"    -> x.v # 0
      [] x.t = "str"      -> x.v # ""
      [] x.t = "list"     -> x.v # <<>>
      [] x.t = "dict"     -> DOMAIN x.v # {}

\* outcome of evaluating a Python expression: a value or a raised exception
Value(x)        == [ok |-> TRUE, val |-> x]
Raised(ty, msg) == [ok |-> FALSE, type |-> ty, msg |-> msg]

Digits == <<"0", "1", "2", "3", "4", "5", "6", "7", "8", "9">>

\* str(x) for the values an engine record carries as id / memory
PyStrOf(x) ==
    CASE x.t = "str"      -> x.v
      [] x.t = "NoneType" -> "None"
      [] x.t = "int"      -> Digits[x.v + 1]
      [] x.t = "float"    -> Digits[(x.v \div 10) + 1] \o "." \o Digits[(x.v % 10) + 1]
      [] x.t = "dict"     -> "{}"
      [] x.t = "list"     -> "[]"

\* the numeric strings of the model and the float each denotes (in tenths)
NumericStrings == {"0.5", "1"}
ParseFloat(s)  == IF s = "0.5" THEN 5 ELSE 10

\* float(x)
PyFloatOf(x) ==
    CASE x.t = "float" -> Value(x)
      [] x.t = "int"   -> Value(PyFloat(10 * x.v))
      [] x.t = "str"   ->
            IF x.v \in NumericStrings
            THEN Value(PyFloat(ParseFloat(x.v)))
            ELSE Raised("ValueError",
                        "could not convert string to float: '" \o x.v \o "'")
      [] OTHER ->
            Raised("TypeError",
                   "float() argument must be a string or a real number, not '"
                       \o x.t \o "'")

\* result.get(key, default)
PyGet(x, key, default) ==
    IF x.t = "dict"
    THEN Value(IF key \in DOMAIN x.v THEN x.v[key] ELSE default)
    ELSE Raised("AttributeError",
                "'" \o x.t \o "' object has no attribute 'get'")

\* the characters of the non-empty strings of the model
Chars(s) ==
    CASE s = "ab"   -> <<"a", "b">>
      [] s = "high" -> <<"h", "i", "g", "h">>
      [] OTHER      -> <<s>>               \* the one-character strings

\* keys of the model's dicts, in the order the engine inserts them
KeyOrder == <<"id", "memory", "score", "metadata", "results", "message">>

RECURSIVE KeysFrom(_, _)
KeysFrom(d, i) ==
    IF i > Len(KeyOrder) THEN <<>>
    ELSE (IF KeyOrder[i] \in DOMAIN d THEN <<PyStr(KeyOrder[i])>> ELSE <<>>)
             \o KeysFrom(d, i + 1)

\* the elements a `for` loop visits, or the TypeError of a non-iterable
PyIter(x) ==
    CASE x.t = "list" -> Value(x.v)
      [] x.t = "dict" -> Value(KeysFrom(x.v, 1))
      [] x.t = "str"  -> Value(IF x.v = "" THEN <<>>
                               ELSE [i \in DOMAIN Chars(x.v) |-> PyStr(Chars(x.v)[i])])
      [] OTHER -> Raised("TypeError", "'" \o x.t \o "' object is not iterable")

----------------------------------------------------------------------------
(* Normalisation of engine results (search_memories / get_all_memories)    *)

\* variant: only the mapping shape is unwrapped, a bare list is dropped
ResultListMappingOnly(results) ==
    IF results.t = "dict" /\ "results" \in DOMAIN results.v
    THEN results.v["results"]
    ELSE PyList(<<>>)

\* lines 176-179: the sequence the handler iterates, given a truthy reply
ResultList(results) ==
    IF results.t = "dict" /\ "results" \in DOMAIN results.v
    THEN results.v["results"]
    ELSE IF results.t = "list" THEN results ELSE PyList(<<>>)

\* variant: metadata is read without its {} default
SearchRecordNoMetadataDefault(result) ==
    LET id == PyGet(result, "id", PyStr("")) IN
    IF ~id.ok THEN id
    ELSE LET sc == PyFloatOf(PyGet(result, "score", PyFloat(0)).val) IN
         IF ~sc.ok THEN sc
         ELSE Value([id       |-> PyStr(PyStrOf(id.val)),
                     memory   |-> PyStr(PyStrOf(PyGet(result, "memory", PyStr("")).val)),
                     score    |-> sc.val,
                     metadata |-> PyGet(result, "metadata", PyNone).val])

\* lines 182-187: one formatted search record; the four fields are
\* evaluated in source order and the first exception wins
SearchRecord(result) ==
    LET id == PyGet(result, "id", PyStr("")) IN
    IF ~id.ok THEN id
    ELSE LET sc == PyFloatOf(PyGet(result, "score", PyFloat(0)).val) IN
         IF ~sc.ok THEN sc
         ELSE Value([id       |-> PyStr(PyStrOf(id.val)),
                     memory   |-> PyStr(PyStrOf(PyGet(result, "memory", PyStr("")).val)),
                     score    |-> sc.val,
                     metadata |-> PyGet(result, "metadata", EmptyDict).val])

\* lines 223-227: one formatted list-all record (no score)
AllRecord(result) ==
    LET id == PyGet(result, "id", PyStr("")) IN
    IF ~id.ok THEN id
    ELSE Value([id       |-> PyStr(PyStrOf(id.val)),
                memory   |-> PyStr(PyStrOf(PyGet(result, "memory", PyStr("")).val)),
                metadata |-> PyGet(result, "metadata", EmptyDict).val])

\* the record appended by the loop body of the handler op
FormatRecord(op, result) ==
    IF op = "search" THEN SearchRecord(result) ELSE AllRecord(result)

\* the for loop: append one formatted record per element, stop at the
\* first exception
RECURSIVE FormatFrom(_, _, _, _)
FormatFrom(op, items, i, memories) ==
    IF i > Len(items) THEN Value(memories)
    ELSE LET rec == FormatRecord(op, items[i]) IN
         IF ~rec.ok THEN rec
         ELSE FormatFrom(op, items, i + 1, Append(memories, rec.val))

\* lines 173-187 / 215-227: memories = [] ... the filled list, or the
\* exception raised on the way
Memories(op, results) ==
    IF ~Truthy(results) THEN Value(<<>>)
    ELSE LET items == PyIter(ResultList(results)) IN
         IF ~items.ok THEN items
         ELSE FormatFrom(op, items.val, 1, <<>>)

\* HTTP answers
Ok(body)           == [status |-> 200, body |-> body]
HTTPException(code, detail) == [status |-> code, detail |-> detail]
NotInitialized     == HTTPException(503, "Mem0 not initialized")

\* variant: count is len(results) of the raw reply
SearchAnswerRawCount(results) ==
    LET m == Memories("search", results) IN
    IF m.ok
    THEN Ok([success |-> TRUE,
             count |-> IF results.t = "list" THEN Len(results.v) ELSE 1,
             memories |-> m.val])
    ELSE HTTPException(500, m.msg)

\* lines 172-198: the answer of search once the engine has returned
SearchAnswer(results) ==
    LET m == Memories("search", results) IN
    IF m.ok
    THEN Ok([success |-> TRUE, count |-> Len(m.val), memories |-> m.val])
    ELSE HTTPException(500, m.msg)

\* lines 214-238: the answer of list-all once the engine has returned
AllAnswer(results) ==
    LET m == Memories("all", results) IN
    IF m.ok
    THEN Ok([success |-> TRUE, count |-> Len(m.val), memories |-> m.val])
    ELSE HTTPException(500, m.msg)

----------------------------------------------------------------------------
(* Requests and engine behaviour                                           *)

Engine   == "Memory"     \* memory holds the Memory object (Ready)
NoEngine == "None"       \* memory is None (Unavailable)

Users   == {"default_user", "alice"}
Queries == {"drink preference"}
Limits  == {5}

\* pydantic Message objects
Message(role, content) == [role |-> role, content |-> content]
MessagePool == {Message("user", "I like tea"), Message("assistant", "Noted")}

\* the conversations of an add request (the empty one is not rejected)
Conversations == UNION {[1..n -> MessagePool] : n \in 0..MaxMessages}

\* metadata of an add request: omitted (None), empty, or a mapping
MetadataInputs == {PyNone, EmptyDict, PyDict([source |-> PyStr("chat")])}

\* what the engine can do with a call: return a value or raise
Return(v)  == [kind |-> "return", value |-> v]
Raise(msg) == [kind |-> "raise", message |-> msg]
NoReply    == [kind |-> "none"]
EngineErrors == {"Connection refused", ""}

\* values memory.add can return (opaque to the gateway)
AddResults ==
    {PyDict([results |-> PyList(<<>>)]),
     PyDict([results |-> PyList(<<PyDict([id |-> PyStr("1"), memory |-> PyStr("likes tea")])>>)]),
     PyNone}

\* engine records: each of the four fields absent or present
IdValues       == {PyStr("1"), PyInt(7)}
MemoryValues   == {PyStr("likes tea")}
ScoreValues    == {PyFloat(9), PyInt(1), PyNone}
MetadataValues == {PyDict([source |-> PyStr("chat")])}

Absent == [t |-> "absent"]

MakeRecord(i, m, s, md) ==
    LET present == {k \in {"id", "memory", "score", "metadata"} :
                       CASE k = "id"     -> i # Absent
                         [] k = "memory" -> m # Absent
                         [] k = "score"  -> s # Absent
                         [] OTHER        -> md # Absent}
    IN PyDict([k \in present |->
                  CASE k = "id"     -> i
                    [] k = "memory" -> m
                    [] k = "score"  -> s
                    [] OTHER        -> md])

EngineRecords ==
    {MakeRecord(i, m, s, md) :
        i  \in IdValues \cup {Absent},     m  \in MemoryValues \cup {Absent},
        s  \in ScoreValues \cup {Absent},  md \in MetadataValues \cup {Absent}}

\* replies in neither accepted shape, and sequences that hold a non-record
OtherReplies ==
    {PyNone, PyInt(0), PyInt(5), PyStr("ab"), EmptyDict,
     PyDict([message |-> PyStr("x")]),
     PyDict([results |-> PyNone]),
     PyDict([results |-> PyInt(5)]),
     PyDict([results |-> PyStr("ab")]),
     PyDict([results |-> PyDict([id |-> PyStr("1")])]),
     PyDict([results |-> EmptyDict]),
     PyList(<<PyStr("ab")>>)}

\* the two accepted shapes around a sequence of records
AsMapping(S) == PyDict([results |-> PyList(S)])
AsBare(S)    == PyList(S)

\* every reply in an accepted shape, as fed to search and list-all in the
\* normalisation runs
RecordSeqs == UNION {[1..n -> EngineRecords] : n \in 0..MaxResults}

ShapedReplies ==
    {IF mapping THEN AsMapping(S) ELSE AsBare(S) :
        mapping \in BOOLEAN, S \in RecordSeqs}

GoodRecord  == MakeRecord(PyStr("1"), PyStr("likes tea"), PyFloat(9), Absent)
BareRecord  == MakeRecord(Absent, Absent, Absent, Absent)
NullRecord  == MakeRecord(PyInt(7), PyStr("likes tea"), PyNone, PyNone)
TextScore   == MakeRecord(PyStr("1"), Absent, PyStr("0.5"), EmptyDict)
WordScore   == MakeRecord(PyStr("1"), Absent, PyStr("high"), Absent)

\* the replies used in the request/response runs of the whole service
SampleReplies ==
    OtherReplies \cup
    UNION {{AsMapping(S), AsBare(S)} :
              S \in {<<>>, <<GoodRecord>>, <<BareRecord, GoodRecord>>,
                     <<GoodRecord, NullRecord>>, <<TextScore>>, <<WordScore>>}}

----------------------------------------------------------------------------
(* State machine                                                           *)

NoRequest  == [op |-> "none"]
NoResponse == [status |-> 0]

\* lines 70-76: construction succeeds or fails once, at import time
Init ==
    /\ memory \in {Engine, NoEngine}
    /\ request = NoRequest
    /\ engineCalls = <<>>
    /\ engineReply = NoReply
    /\ response = NoResponse
    /\ invoked = {}
    /\ store \in SUBSET Users

\* a handler that does not reach the engine
NoEngineCall ==
    /\ engineCalls' = <<>>
    /\ engineReply' = NoReply
    /\ UNCHANGED <<memory, invoked, store>>

\* lines 101-108
root ==
    /\ request' = [op |-> "root"]
    /\ response' = Ok([service |-> "ProjectZ Mem0 Service",
                       status  |-> IF memory # NoEngine THEN "running" ELSE "error",
                       version |-> "1.0.0"])
    /\ NoEngineCall

\* variant: the readiness gate is missing
HealthAnswerUngated(mem) == Ok([status |-> "healthy"])

\* lines 113-115
HealthAnswer(mem) ==
    IF mem = NoEngine THEN NotInitialized ELSE Ok([status |-> "healthy"])

\* lines 110-115
health ==
    /\ request' = [op |-> "health"]
    /\ response' = HealthAnswer(memory)
    /\ NoEngineCall

\* variant: the conversation is handed over newest first
MessagesListReversed(messages) ==
    [i \in DOMAIN messages |->
        PyDict([role    |-> PyStr(messages[Len(messages) + 1 - i].role),
                content |-> PyStr(messages[Len(messages) + 1 - i].content)])]

\* lines 128-131: Message objects to the dicts handed to the engine
MessagesList(messages) ==
    [i \in DOMAIN messages |->
        PyDict([role    |-> PyStr(messages[i].role),
                content |-> PyStr(messages[i].content)])]

\* lines 136-140: the call add_memory makes
AddCall(req) ==
    [op       |-> "add",
     messages |-> MessagesList(req.messages),
     user_id  |-> req.user_id,
     metadata |-> IF Truthy(req.metadata) THEN req.metadata ELSE EmptyDict]

\* variant: the exception text is replaced by a fixed message
AddAnswerGenericDetail(reply) ==
    IF reply.kind = "return"
    THEN Ok([success |-> TRUE, result |-> reply.value,
             message |-> "Memories extracted and stored"])
    ELSE HTTPException(500, "Internal server error")

\* lines 142-151: the answer of add for an engine outcome
AddAnswer(reply) ==
    IF reply.kind = "return"
    THEN Ok([success |-> TRUE, result |-> reply.value,
             message |-> "Memories extracted and stored"])
    ELSE HTTPException(500, reply.message)

\* variant: a failed engine call drops the handle
CallEngineDropsHandle(call, reply) ==
    /\ engineCalls' = <<call>>
    /\ engineReply' = reply
    /\ invoked' = invoked \cup {call.op}
    /\ memory' = IF reply.kind = "raise" THEN NoEngine ELSE memory

\* one engine call: recorded, answered by the engine, never repeated
CallEngine(call, reply) ==
    /\ engineCalls' = <<call>>
    /\ engineReply' = reply
    /\ invoked' = invoked \cup {call.op}
    /\ UNCHANGED memory

\* lines 117-151
add_memory ==
    \E messages \in Conversations, user_id \in Users,
       metadata \in MetadataInputs :
      LET req == [op |-> "add", messages |-> messages, user_id |-> user_id,
                  metadata |-> metadata] IN
      /\ request' = req
      /\ IF memory = NoEngine
         THEN response' = NotInitialized /\ NoEngineCall
         ELSE \/ \E v \in AddResults :
                   /\ CallEngine(AddCall(req), Return(v))
                   /\ response' = AddAnswer(Return(v))
                   /\ store' \in {store, store \cup {user_id}}
              \/ \E e \in EngineErrors :
                   /\ CallEngine(AddCall(req), Raise(e))
                   /\ response' = AddAnswer(Raise(e))
                   /\ store' = store

\* variant: search is served by listing everything
SearchCallListsAll(req) == [op |-> "get_all", user_id |-> req.user_id]

\* lines 166-170: the call search_memories makes
SearchCall(req) ==
    [op |-> "search", query |-> req.query, user_id |-> req.user_id,
     limit |-> req.limit]

\* lines 153-198, for the users in UserIds and the engine replies in Replies
search_with(UserIds, Replies) ==
    \E query \in Queries, user_id \in UserIds, limit \in Limits :
      LET req == [op |-> "search", query |-> query, user_id |-> user_id,
                  limit |-> limit] IN
      /\ request' = req
      /\ IF memory = NoEngine
         THEN response' = NotInitialized /\ NoEngineCall
         ELSE /\ \/ \E v \in Replies :
                      /\ CallEngine(SearchCall(req), Return(v))
                      /\ response' = SearchAnswer(v)
                 \/ \E e \in EngineErrors :
                      /\ CallEngine(SearchCall(req), Raise(e))
                      /\ response' = HTTPException(500, e)
              /\ store' = store

search_memories == search_with(Users, SampleReplies)

\* lines 200-238, for the users in UserIds and the engine replies in Replies
get_all_with(UserIds, Replies) ==
    \E user_id \in UserIds :
      LET req == [op |-> "all", user_id |-> user_id] IN
      /\ request' = req
      /\ IF memory = NoEngine
         THEN response' = NotInitialized /\ NoEngineCall
         ELSE /\ \/ \E v \in Replies :
                      /\ CallEngine([op |-> "get_all", user_id |-> user_id],
                                    Return(v))
                      /\ response' = AllAnswer(v)
                 \/ \E e \in EngineErrors :
                      /\ CallEngine([op |-> "get_all", user_id |-> user_id],
                                    Raise(e))
                      /\ response' = HTTPException(500, e)
              /\ store' = store

get_all_memories == get_all_with(Users, SampleReplies)

\* lines 254-262: the answer of clear for an engine outcome
ClearAnswer(reply) ==
    IF reply.kind = "return"
    THEN Ok([success |-> TRUE, message |-> "All memories cleared"])
    ELSE HTTPException(500, reply.message)

\* lines 240-262
clear_memories ==
    \E user_id \in Users :
      LET req == [op |-> "clear", user_id |-> user_id] IN
      /\ request' = req
      /\ IF memory = NoEngine
         THEN response' = NotInitialized /\ NoEngineCall
         ELSE \/ /\ CallEngine([op |-> "delete_all", user_id |-> user_id],
                                 Return(PyNone))
                 /\ response' = ClearAnswer(Return(PyNone))
                 /\ store' = store \ {user_id}
              \/ \E e \in EngineErrors :
                   /\ CallEngine([op |-> "delete_all", user_id |-> user_id],
                                 Raise(e))
                   /\ response' = ClearAnswer(Raise(e))
                   /\ store' = store

Next ==
    \/ root
    \/ health
    \/ add_memory
    \/ search_memories
    \/ get_all_memories
    \/ clear_memories

Spec == Init /\ [][Next]_vars

\* the first search or list-all request of a process whose engine is
\* Ready, over every reply of the bounded universe in an accepted shape
first_search == request = NoRequest /\ memory = Engine /\ search_with({"default_user"}, ShapedReplies)
first_all    == request = NoRequest /\ memory = Engine /\ get_all_with({"default_user"}, ShapedReplies)

NextNorm == first_search \/ first_all

InitNorm == Init /\ memory = Engine /\ store = {}

SpecNorm == InitNorm /\ [][NextNorm]_vars

----------------------------------------------------------------------------
(* Properties                                                              *)

GatedOps  == {"health", "add", "search", "all", "clear"}
ReadOps   == {"search", "all"}

\* the engine returned (did not raise) for a search or list-all request
Returned == request.op \in ReadOps /\ engineReply.kind = "return"

\* a sequence of records: a list whose elements are all mappings
IsRecordList(x) == x.t = "list" /\ \A i \in DOMAIN x.v : x.v[i].t = "dict"

IsMappingShape(x) ==
    x.t = "dict" /\ "results" \in DOMAIN x.v /\ IsRecordList(x.v["results"])

AcceptedShape(x) == IsMappingShape(x) \/ IsRecordList(x)

\* the records of a reply in an accepted shape
RecordsOf(x) == IF x.t = "list" THEN x.v ELSE x.v["results"].v

EmptySuccess == Ok([success |-> TRUE, count |-> 0, memories |-> <<>>])

\* C1: while the engine handle is Unavailable, health, add, search, list-all
\* and clear are answered 503 and no engine operation is ever invoked; the
\* liveness check answers normally with status "error".
C1_UnavailableShortCircuits ==
    memory = NoEngine =>
        /\ invoked = {}
        /\ engineCalls = <<>>
        /\ engineReply = NoReply
        /\ request.op \in GatedOps => response.status = 503
        /\ request.op = "root" =>
              response.status = 200 /\ response.body.status = "error"

C1_Witness ==
    memory = NoEngine /\ request.op = "clear" /\ response.status = 503

\* C2: when the engine call of add, search, list-all or clear raises, the
\* answer is 500 with the exception text as detail, the engine was called
\* exactly once for the request and no success body is returned.
C2_EngineFailureIs500 ==
    (memory = Engine /\ engineReply.kind = "raise") =>
        /\ request.op \in {"add", "search", "all", "clear"}
        /\ response = [status |-> 500, detail |-> engineReply.message]
        /\ Len(engineCalls) = 1

C2_Witness ==
    /\ memory = Engine /\ request.op = "add"
    /\ engineReply = Raise("Connection refused")
    /\ response.status = 500 /\ response.detail = "Connection refused"

\* neither a mapping whose `results` holds a sequence nor a bare sequence
Unrecognised(x) ==
    /\ x.t # "list"
    /\ ~(x.t = "dict" /\ "results" \in DOMAIN x.v /\ x.v["results"].t = "list")

\* C3: a reply of search or list-all that is in neither accepted shape is
\* treated as the empty sequence and answered with success, count 0.
C3_UnrecognisedShapeIsEmpty ==
    (Returned /\ Unrecognised(engineReply.value)) => response = EmptySuccess

\* C4: search and list-all answer the mapping {results: S} exactly as they
\* answer the bare sequence S, for every sequence S of records.
C4_ShapesAgree ==
    Returned =>
        LET v == engineReply.value
            Answer(x) == IF request.op = "search"
                         THEN SearchAnswer(x) ELSE AllAnswer(x)
        IN /\ IsMappingShape(v) => response = Answer(AsBare(RecordsOf(v)))
           /\ IsRecordList(v)   => response = Answer(AsMapping(RecordsOf(v)))

C4_Witness ==
    /\ Returned /\ request.op = "search"
    /\ engineReply.value = AsMapping(<<BareRecord, GoodRecord>>)
    /\ response.status = 200 /\ response.body.count = 2

\* the text an id / memory value is rendered as
TextOf(x) == IF x.t = "str" THEN x.v ELSE IF x = PyInt(7) THEN "7" ELSE "None"

\* C5: in a successful search or list-all answer a field missing from the
\* engine record has its default (score 0.0, metadata {}, id and memory "")
\* and a present field keeps the engine's value (id and memory as text);
\* search records always carry score, list-all records never do.
C5_DefaultsFilled ==
    (Returned /\ AcceptedShape(engineReply.value) /\ response.status = 200) =>
        LET S == RecordsOf(engineReply.value)
            M == response.body.memories
        IN /\ Len(M) = Len(S)
           /\ \A i \in DOMAIN S :
                LET rec == S[i].v
                    out == M[i]
                    Has(k) == k \in DOMAIN rec
                IN /\ out.id = PyStr(IF Has("id") THEN TextOf(rec["id"]) ELSE "")
                   /\ out.memory =
                         PyStr(IF Has("memory") THEN TextOf(rec["memory"]) ELSE "")
                   /\ out.metadata =
                         (IF Has("metadata") THEN rec["metadata"] ELSE EmptyDict)
                   /\ request.op = "search" =>
                         /\ "score" \in DOMAIN out
                         /\ ~Has("score") => out.score = PyFloat(0)
                         /\ (Has("score") /\ rec["score"].t = "float") =>
                                out.score = rec["score"]
                         /\ (Has("score") /\ rec["score"].t = "int") =>
                                out.score = PyFloat(10 * rec["score"].v)
                   /\ request.op = "all" => "score" \notin DOMAIN out

C5_Witness ==
    /\ Returned /\ request.op = "search"
    /\ engineReply.value = AsBare(<<BareRecord, GoodRecord>>)
    /\ response.status = 200
    /\ response.body.memories[1] =
          [id |-> PyStr(""), memory |-> PyStr(""), score |-> PyFloat(0),
           metadata |-> EmptyDict]

\* C6: whatever the fields of the engine's records hold (absent, present
\* with any value, null), the request succeeds and every returned record
\* has string id and memory, a mapping as metadata and, in search, a float
\* score.
C6_RecordsConform ==
    (Returned /\ AcceptedShape(engineReply.value)) =>
        /\ response.status = 200
        /\ \A i \in DOMAIN response.body.memories :
              LET out == response.body.memories[i] IN
              /\ out.id.t = "str"
              /\ out.memory.t = "str"
              /\ out.metadata.t = "dict"
              /\ request.op = "search" => out.score.t = "float"

\* C7: add calls the engine exactly once with the messages as {role,
\* content} pairs in input order, the request's user_id and its metadata
\* ({} when omitted), and on success returns the engine's value unchanged.
C7_AddPassesThrough ==
    (memory = Engine /\ request.op = "add") =>
        /\ Len(engineCalls) = 1
        /\ LET call == engineCalls[1] IN
           /\ call.op = "add"
           /\ Len(call.messages) = Len(request.messages)
           /\ \A i \in DOMAIN request.messages :
                 call.messages[i] =
                    PyDict([role    |-> PyStr(request.messages[i].role),
                            content |-> PyStr(request.messages[i].content)])
           /\ call.user_id = request.user_id
           /\ call.metadata = (IF request.metadata = PyNone
                               THEN EmptyDict ELSE request.metadata)
        /\ engineReply.kind = "return" =>
              response = Ok([success |-> TRUE, result |-> engineReply.value,
                             message |-> "Memories extracted and stored"])

C7_Witness ==
    /\ memory = Engine /\ request.op = "add"
    /\ request.messages = <<Message("user", "I like tea"),
                            Message("assistant", "Noted")>>
    /\ request.metadata = PyNone
    /\ engineCalls[1].metadata = EmptyDict
    /\ response.status = 200

\* C8: no request changes the engine handle, so health and liveness keep
\* answering from the startup state, and health never calls the engine.
C8_HandleFixed ==
    [][/\ memory' = memory
       /\ request'.op = "health" =>
             /\ engineCalls' = <<>> /\ invoked' = invoked
             /\ (response'.status = 200) <=> (memory = Engine)
             /\ (response'.status = 503) <=> (memory = NoEngine)
       /\ request'.op = "root" =>
             response'.body.status =
                 (IF memory = Engine THEN "running" ELSE "error")]_vars

C8_Witness ==
    /\ memory = Engine /\ request.op = "clear"
    /\ engineReply.kind = "raise" /\ response.status = 500

\* C9: with the engine Ready every request makes exactly the engine call of
\* its endpoint (none for liveness and health); search and list-all leave
\* the stored memories unchanged, and clear answers "All memories cleared"
\* whenever delete-all returns.
C9_OneMatchingCall ==
    [][memory = Engine =>
         /\ LET ops == [i \in DOMAIN engineCalls' |-> engineCalls'[i].op] IN
            ops = CASE request'.op = "add"    -> <<"add">>
                    [] request'.op = "search" -> <<"search">>
                    [] request'.op = "all"    -> <<"get_all">>
                    [] request'.op = "clear"  -> <<"delete_all">>
                    [] OTHER                  -> <<>>
         /\ invoked' = invoked \cup {engineCalls'[i].op : i \in DOMAIN engineCalls'}
         /\ request'.op \in {"search", "all", "clear"} =>
               engineCalls'[1].user_id = request'.user_id
         /\ request'.op \in {"search", "all", "root", "health"} => store' = store
         /\ (request'.op = "clear" /\ engineReply'.kind = "return") =>
               response' = Ok([success |-> TRUE,
                               message |-> "All memories cleared"])]_vars

C9_Witness ==
    /\ memory = Engine /\ request.op = "search"
    /\ Len(engineCalls) = 1 /\ engineCalls[1].op = "search"
    /\ store = Users /\ "delete_all" \notin invoked

\* C10: a successful search or list-all answer has success = true and count
\* equal to the length of memories, one record per engine record in the
\* engine's order; failures are 503 or 500 answers without a body.
C10_CountMatches ==
    request.op \in ReadOps =>
        /\ response.status \in {200, 500, 503}
        /\ response.status # 200 => DOMAIN response = {"status", "detail"}
        /\ response.status = 200 =>
              /\ response.body.success = TRUE
              /\ response.body.count = Len(response.body.memories)
              /\ AcceptedShape(engineReply.value) =>
                    LET S == RecordsOf(engineReply.value) IN
                    /\ response.body.count = Len(S)
                    /\ \A i \in DOMAIN S :
                          response.body.memories[i].id =
                             PyStr(IF "id" \in DOMAIN S[i].v
                                   THEN TextOf(S[i].v["id"]) ELSE "")

C10_Witness ==
    /\ Returned /\ request.op = "all"
    /\ engineReply.value = AsMapping(<<BareRecord, GoodRecord>>)
    /\ response.status = 200 /\ response.body.count = 2
    /\ response.body.memories[1].id = PyStr("")
    /\ response.body.memories[2].id = PyStr("1")

====
